---- MODULE Spec2Model ----
(***************************************************************************)
(* A model of the nullability checker of the static analyzer               *)
(* (lib/StaticAnalyzer/Checkers/NullabilityChecker.cpp).                   *)
(*                                                                         *)
(* The state is what the checker keeps along one explored path: the        *)
(* NullabilityMap of the current program state, the checker's Filter, the  *)
(* diagnostic of the last callback and whether the path still runs.  Each  *)
(* callback of the checker is an operator from (map, filter, inputs) to an *)
(* outcome [state, report, status], and one action applies it.  What the   *)
(* engine, the solver and the type system answer is an input of the        *)
(* callback, drawn from small sets.                                        *)
(***************************************************************************)
EXTENDS Integers, Sequences, FiniteSets

VARIABLES
    Filter,   \* the flags of NullabilityChecksFilter that are set
    State,    \* the NullabilityMap of the path's current node
    report,   \* what the last callback handed to reportBug
    status,   \* "running", or "sink" / "fault" once the path has ended
    stage,    \* history: how far each region is through call-then-cast
    fork,     \* the sibling of the path once it has branched, with history
    trail     \* history: how many trail events the path holds for a region

vars == <<Filter, State, report, status, stage, fork, trail>>

---------------------------------------------------------------------------
(* Bounds of the model. *)

\* Number of symbolic regions the engine hands to the checker.
NumRegions == 2

\* Longest parameter list of a call in the specification of whole paths.
MaxParamsPath == 1

\* Longest parameter list of a call in the specification of calls.
MaxParams == 2

---------------------------------------------------------------------------
(* enum class Nullability, in the order getMostNullable relies on. *)

Contradicted == 0
Nullable == 1
Unspecified == 2
Nonnull == 3

\* What getNullabilityAnnotation can return for a type.
Annotations == {Nullable, Unspecified, Nonnull}

getMostNullableLhs(Lhs, Rhs) == Lhs

getMostNullableRhs(Lhs, Rhs) == Rhs

getMostNullableMax(Lhs, Rhs) == IF Lhs < Rhs THEN Rhs ELSE Lhs

\* std::min over the enum's underlying char.
getMostNullable(Lhs, Rhs) == IF Rhs < Lhs THEN Rhs ELSE Lhs

\* enum class NullConstraint, as getNullConstraint answers from the solver.
NullConstraint == {"IsNull", "IsNotNull", "Unknown"}

\* The five flags of NullabilityChecksFilter.
Checks == {"NullPassedToNonnull", "NullReturnedFromNonnull",
           "NullableDereferenced", "NullablePassedToNonnull",
           "NullableReturnedFromNonnull"}

\* Each REGISTER_CHECKER sets one flag of the one checker object, so a
\* checker whose callbacks run has at least one flag set.
Configs == (SUBSET Checks) \ {{}}

---------------------------------------------------------------------------
(* Regions, values, statements, the map. *)

Regions == 1..NumRegions

\* getTrackRegion's nullptr.
NoRegion == 0

\* An SVal as far as getTrackRegion looks at it: a loc::MemRegionVal of a
\* symbolic region, of a field or an element of a region (base is the super
\* region when that is symbolic, NoRegion when it is not), or anything else.
SymVal(r) == [kind |-> "symbolic", base |-> r]
OtherVal == [kind |-> "other", base |-> NoRegion]
SubVals == [kind : {"field", "element"}, base : Regions \cup {NoRegion}]

\* The values a pointer expression evaluates to.
PointerVals == {SymVal(r) : r \in Regions} \cup {OtherVal}

getTrackRegionOfValue(Val, CheckSuperRegion) ==
    IF Val.kind = "symbolic" THEN Val.base ELSE NoRegion

getTrackRegion(Val, CheckSuperRegion) ==
    IF Val.kind = "symbolic" THEN Val.base
    ELSE IF CheckSuperRegion /\ Val.kind \in {"field", "element"} THEN Val.base
    ELSE NoRegion

\* The statements a NullabilityState can name as its source; "nullptr" is
\* the default argument of the constructor.
NoStmt == "nullptr"

\* State->get<NullabilityMap>(Region) == nullptr.
Untracked == [value |-> -1, source |-> NoStmt]

NullabilityState(Nullab, Source) == [value |-> Nullab, source |-> Source]

IsTracked(st, Region) == st[Region] # Untracked

SetMap(st, Region, ns) == [st EXCEPT ![Region] = ns]

EmptyMap == [r \in Regions |-> Untracked]

---------------------------------------------------------------------------
(* Diagnostics and outcomes of a callback. *)

ErrorKind == {"NilAssignedToNonnull", "NilPassedToNonnull",
              "NilReturnedToNonnull", "NullableAssignedToNonnull",
              "NullableReturnedToNonnull", "NullableDereferenced",
              "NullablePassedToNonnull"}

\* No reportBug call.  arg is the position of the argument a call's
\* diagnostic is about (its ValueExpr), 0 elsewhere.
NoReport == [kind |-> "None", region |-> NoRegion, arg |-> 0]

reportBug(Error, Region, Arg) == [kind |-> Error, region |-> Region, arg |-> Arg]

\* return, or addTransition of a new state: the path goes on.
Continue(st) == [state |-> st, report |-> NoReport, status |-> "running"]

\* addTransition(State, Pred, &Tag) and reportBug: the path goes on.
Advisory(st, rep) == [state |-> st, report |-> rep, status |-> "running"]

FatalAsAdvisory(st, rep) == [state |-> st, report |-> rep, status |-> "running"]

\* generateSink and reportBug: the path ends.
Fatal(st, rep) == [state |-> st, report |-> rep, status |-> "sink"]

\* The callback dereferences a null or an empty value: the analyzer dies.
Fault(st) == [state |-> st, report |-> NoReport, status |-> "fault"]

---------------------------------------------------------------------------
(* checkBind *)

\* L is a typed value region of pointer type and V is defined or unknown,
\* or the first of these that fails.
BindGuards == {"ok", "notTypedRegion", "notPointer", "undefined"}

\* ValDefOrUnknown->getAsSymbol() finds no symbol.
NoSymbol == -2

\* loc: the annotation of the location's type; symType: the annotation of
\* the type of V's symbol (the value of a symbolic region always has one);
\* isBinOp: S is a BinaryOperator.  A failed guard returns before any other
\* input is read.
BindInputs ==
    [guard : {"ok"}, loc : Annotations, nullness : NullConstraint,
     symType : Annotations, val : PointerVals, isBinOp : BOOLEAN]
    \cup
    [guard : {"ok"}, loc : Annotations, nullness : NullConstraint,
     symType : {NoSymbol}, val : {OtherVal}, isBinOp : BOOLEAN]
    \cup
    [guard : BindGuards \ {"ok"}, loc : {Unspecified}, nullness : {"Unknown"},
     symType : {NoSymbol}, val : {OtherVal}, isBinOp : {FALSE}]

BindValNullability(b) ==
    IF b.symType = NoSymbol THEN Unspecified ELSE b.symType

NullAssignedAnyValue(filter, RhsNullness, ValNullability, LocNullability) ==
    /\ "NullPassedToNonnull" \in filter
    /\ RhsNullness = "IsNull"
    /\ LocNullability = Nonnull

\* The condition of the first report of checkBind.
NullAssigned(filter, RhsNullness, ValNullability, LocNullability) ==
    /\ "NullPassedToNonnull" \in filter
    /\ RhsNullness = "IsNull"
    /\ ValNullability # Nonnull
    /\ LocNullability = Nonnull

NullableAssignedAnyTracked(filter, RhsNullness, TrackedNullabValue, LocNullability) ==
    /\ "NullablePassedToNonnull" \in filter
    /\ RhsNullness # "IsNotNull"
    /\ LocNullability = Nonnull

\* The condition of the second report of checkBind, for a tracked region.
NullableAssigned(filter, RhsNullness, TrackedNullabValue, LocNullability) ==
    /\ RhsNullness # "IsNotNull"
    /\ TrackedNullabValue = Nullable
    /\ "NullablePassedToNonnull" \in filter
    /\ LocNullability = Nonnull

checkBind(st, filter, b) ==
    LET ValNullability == BindValNullability(b)
        LocNullability == b.loc
        ValueRegion == getTrackRegion(b.val, FALSE)
    IN  IF b.guard # "ok" THEN Continue(st)
        ELSE IF NullAssigned(filter, b.nullness, ValNullability,
                             LocNullability)
        THEN Advisory(st, reportBug("NilAssignedToNonnull", NoRegion, 0))
        ELSE IF ValueRegion = NoRegion THEN Continue(st)
        ELSE IF IsTracked(st, ValueRegion)
        THEN IF NullableAssigned(filter, b.nullness, st[ValueRegion].value,
                                 LocNullability)
             THEN Advisory(st, reportBug("NullableAssignedToNonnull",
                                         ValueRegion, 0))
             ELSE Continue(st)
        ELSE IF ValNullability = Nullable
        THEN Continue(SetMap(st, ValueRegion,
                 NullabilityState(ValNullability,
                                  IF b.isBinOp THEN "BindRHS" ELSE "BindStmt")))
        ELSE IF LocNullability = Nullable
        THEN Continue(SetMap(st, ValueRegion,
                 NullabilityState(LocNullability,
                                  IF b.isBinOp THEN "BindLHS" ELSE "BindStmt")))
        ELSE Continue(st)

---------------------------------------------------------------------------
(* checkPreStmt, the callback before a ReturnStmt *)

\* The statement returns a pointer-typed expression with a defined or
\* unknown value from a declaration with a function type, or the first of
\* these that fails.
ReturnGuards == {"ok", "noRetExpr", "notPointer", "undefined", "noFuncType"}

\* static: the annotation of the function's declared return type.
ReturnInputs ==
    [guard : {"ok"}, nullness : NullConstraint, static : Annotations,
     val : PointerVals]
    \cup
    [guard : ReturnGuards \ {"ok"}, nullness : {"Unknown"},
     static : {Unspecified}, val : {OtherVal}]

NullReturnedOutcome(st, rep) == Advisory(st, rep)

NullableReturnedAnyNullness(filter, Nullness, TrackedNullabValue, StaticNullability) ==
    /\ "NullableReturnedFromNonnull" \in filter
    /\ TrackedNullabValue = Nullable
    /\ StaticNullability = Nonnull

\* The condition of the second report of checkPreStmt.
NullableReturned(filter, Nullness, TrackedNullabValue, StaticNullability) ==
    /\ "NullableReturnedFromNonnull" \in filter
    /\ Nullness # "IsNotNull"
    /\ TrackedNullabValue = Nullable
    /\ StaticNullability = Nonnull

AdvisoryAsFatal(st, rep) == [state |-> st, report |-> rep, status |-> "sink"]

\* addTransition with a tag, then reportBug(NullableReturnedToNonnull).
NullableReturnedOutcome(st, rep) == Advisory(st, rep)

checkPreStmt(st, filter, s) ==
    LET StaticNullability == s.static
        Region == getTrackRegion(s.val, FALSE)
    IN  IF s.guard # "ok" THEN Continue(st)
        ELSE IF /\ "NullReturnedFromNonnull" \in filter
                /\ s.nullness = "IsNull"
                /\ StaticNullability = Nonnull
        THEN NullReturnedOutcome(st,
                 reportBug("NilReturnedToNonnull", NoRegion, 0))
        ELSE IF Region = NoRegion THEN Continue(st)
        ELSE IF IsTracked(st, Region)
        THEN IF NullableReturned(filter, s.nullness, st[Region].value,
                                 StaticNullability)
             THEN NullableReturnedOutcome(st,
                      reportBug("NullableReturnedToNonnull", Region, 0))
             ELSE Continue(st)
        ELSE IF StaticNullability = Nullable
        THEN Continue(SetMap(st, Region,
                 NullabilityState(StaticNullability, "ReturnStmt")))
        ELSE Continue(st)

---------------------------------------------------------------------------
(* checkPreCall *)

\* One formal parameter with what the call pairs it with.
\*   pack      Param->isParameterPack()
\*   hasArg    Idx < Call.getNumArgs(), so ArgExpr is not null
\*   defined   Call.getArgSVal(Idx) is defined or unknown
\*   ptype     the parameter's type: a pointer, a reference, anything else
\*   nullness  getNullConstraint of the argument's value
\*   param     getNullabilityAnnotation(Param->getType())
\*   argStatic getNullabilityAnnotation(ArgExpr->getType())
\*   val       the argument's value
\*   traps     reading the type through a null ArgExpr stops the analyzer;
\*             when it does not, argStatic is whatever was read
ParamDefault ==
    [pack |-> FALSE, hasArg |-> TRUE, defined |-> TRUE, ptype |-> "ptr",
     nullness |-> "Unknown", param |-> Unspecified, argStatic |-> Unspecified,
     val |-> OtherVal, traps |-> FALSE]

\* A type that is a reference has no nullability attribute of its own.
ParamCases ==
    [pack : {FALSE}, hasArg : {TRUE}, defined : {TRUE}, ptype : {"ptr"},
     nullness : NullConstraint, param : Annotations, argStatic : Annotations,
     val : PointerVals, traps : {FALSE}]
    \cup
    [pack : {FALSE}, hasArg : {TRUE}, defined : {TRUE}, ptype : {"ref"},
     nullness : NullConstraint, param : {Unspecified},
     argStatic : Annotations, val : PointerVals, traps : {FALSE}]
    \cup
    { [ParamDefault EXCEPT !.pack = TRUE],
      [ParamDefault EXCEPT !.defined = FALSE],
      [ParamDefault EXCEPT !.ptype = "other"],
      [ParamDefault EXCEPT !.hasArg = FALSE, !.traps = TRUE],
      [ParamDefault EXCEPT !.hasArg = FALSE] }

\* Argument expressions are a prefix of the parameter list.
ArgsArePrefix(params) ==
    \A i, j \in 1..Len(params) :
        (i < j /\ ~params[i].hasArg) => ~params[j].hasArg

ParamLists(n) ==
    {ps \in UNION {[1..k -> ParamCases] : k \in 0..n} : ArgsArePrefix(ps)}

\* hasDecl: Call.getDecl() is not null.
Calls(n) ==
    [hasDecl : {TRUE}, params : ParamLists(n)]
    \cup [hasDecl : {FALSE}, params : {<<>>}]

NullablePassedOutcome(st, rep) == Fatal(st, rep)

NullPassedOutcome(st, rep) == Fatal(st, rep)

SeedsTrackingFromParam(Param) ==
    Param.argStatic = Nullable \/ Param.param = Nullable

\* The loop starts tracking the untracked region of the argument.
SeedsTracking(Param) == Param.argStatic = Nullable

AtPackContinue(st, rest) == rest

\* break at a parameter pack: the handler goes to its end with st, whatever
\* the rest of the loop would have done.
AtPack(st, rest) == Continue(st)

\* The loop over Call.parameters() from position Idx on, State being st.
RECURSIVE PreCallLoop(_, _, _, _)
PreCallLoop(params, Idx, st, filter) ==
    IF Idx > Len(params) THEN Continue(st)
    ELSE
    LET Param == params[Idx]
        Region == getTrackRegion(Param.val, FALSE)
        Rest(s) == PreCallLoop(params, Idx + 1, s, filter)
    IN  IF Param.pack THEN AtPack(st, Rest(st))
        ELSE IF ~Param.defined THEN Rest(st)
        ELSE IF Param.ptype = "other" THEN Rest(st)
        ELSE IF ~Param.hasArg /\ Param.traps THEN Fault(st)
        ELSE IF /\ "NullPassedToNonnull" \in filter
                /\ Param.nullness = "IsNull"
                /\ Param.argStatic # Nonnull
                /\ Param.param = Nonnull
        THEN NullPassedOutcome(st, reportBug("NilPassedToNonnull",
                                             NoRegion, Idx))
        ELSE IF Region = NoRegion THEN Rest(st)
        ELSE IF IsTracked(st, Region)
        THEN IF \/ Param.nullness = "IsNotNull"
                \/ st[Region].value # Nullable
             THEN Rest(st)
             ELSE IF /\ "NullablePassedToNonnull" \in filter
                     /\ Param.param = Nonnull
             THEN NullablePassedOutcome(st,
                      reportBug("NullablePassedToNonnull", Region, Idx))
             ELSE IF /\ "NullableDereferenced" \in filter
                     /\ Param.ptype = "ref"
             THEN Fatal(st, reportBug("NullableDereferenced", Region, Idx))
             ELSE Rest(st)
        ELSE IF ~SeedsTracking(Param) THEN Rest(st)
        ELSE Rest(SetMap(st, Region,
                 NullabilityState(Param.argStatic, "ArgExpr")))

checkPreCall(st, filter, call) ==
    IF ~call.hasDecl THEN Continue(st)
    ELSE PreCallLoop(call.params, 1, st, filter)

---------------------------------------------------------------------------
(* checkPostCall *)

\* The call has a declaration, is no ObjC message, and its declaration has
\* a function type with a pointer return type, or the first that fails.
PostCallGuards == {"ok", "noDecl", "objcMessage", "noFuncType", "notPointer"}

\* val: Call.getReturnValue(); inCGFile: the file name of the callee's
\* declaration starts with "CG"; ret: the annotation of the return type.
PostCallInputs ==
    [guard : {"ok"}, val : PointerVals, inCGFile : BOOLEAN, ret : Annotations]
    \cup
    [guard : PostCallGuards \ {"ok"}, val : {OtherVal}, inCGFile : {FALSE},
     ret : {Unspecified}]

checkPostCallUntrackedOnly(st, filter, c) ==
    LET Region == getTrackRegion(c.val, FALSE)
    IN  IF c.guard # "ok" \/ Region = NoRegion THEN Continue(st)
        ELSE IF IsTracked(st, Region) THEN Continue(st)
        ELSE IF c.inCGFile
        THEN Continue(SetMap(st, Region,
                             NullabilityState(Contradicted, NoStmt)))
        ELSE IF c.ret = Nullable
        THEN Continue(SetMap(st, Region, NullabilityState(Nullable, NoStmt)))
        ELSE Continue(st)

checkPostCall(st, filter, c) ==
    LET Region == getTrackRegion(c.val, FALSE)
    IN  IF c.guard # "ok" THEN Continue(st)
        ELSE IF Region = NoRegion THEN Continue(st)
        ELSE IF c.inCGFile
        THEN Continue(SetMap(st, Region,
                             NullabilityState(Contradicted, NoStmt)))
        ELSE IF ~IsTracked(st, Region) /\ c.ret = Nullable
        THEN Continue(SetMap(st, Region, NullabilityState(Nullable, NoStmt)))
        ELSE Continue(st)

---------------------------------------------------------------------------
(* checkPostObjCMessage *)

\* What the suppression heuristics read of a message: whether the name of
\* the method's class interface starts with "NS" and contains "Dictionary",
\* "Array", "String"; whether it is an instance message; the first slot of
\* its selector; whether a parameter is named "encoding".
Shape(ns, dictionary, array, string, instance, slot0, encoding) ==
    [ns |-> ns, dictionary |-> dictionary, array |-> array,
     string |-> string, instance |-> instance, slot0 |-> slot0,
     encoding |-> encoding]

\* -[TestObject returnsNullable] and the like.
PlainMessage == Shape(FALSE, FALSE, FALSE, FALSE, TRUE, "other", FALSE)
\* -[NSDictionary objectForKey:]
DictionaryGet == Shape(TRUE, TRUE, FALSE, FALSE, TRUE, "other", FALSE)
\* +[NSDictionary dictionaryWithObject:forKey:]
DictionaryClassMessage == Shape(TRUE, TRUE, FALSE, FALSE, FALSE, "other", FALSE)
\* -[MyDictionary objectForKey:], a class without the NS prefix
ForeignDictionaryGet == Shape(FALSE, TRUE, FALSE, FALSE, TRUE, "other", FALSE)
\* -[NSArray firstObject], -[NSArray lastObject], -[NSArray objectAtIndex:]
ArrayFirst == Shape(TRUE, FALSE, TRUE, FALSE, TRUE, "firstObject", FALSE)
ArrayLast == Shape(TRUE, FALSE, TRUE, FALSE, TRUE, "lastObject", FALSE)
ArrayOther == Shape(TRUE, FALSE, TRUE, FALSE, TRUE, "other", FALSE)
\* -[NSString initWithData:encoding:], -[NSString stringByAppendingString:]
StringEncoding == Shape(TRUE, FALSE, FALSE, TRUE, TRUE, "other", TRUE)
StringOther == Shape(TRUE, FALSE, FALSE, TRUE, TRUE, "other", FALSE)

SuppressedShapes == {DictionaryGet, ArrayFirst, ArrayLast, StringEncoding}

MessageShapes ==
    SuppressedShapes \cup
    {PlainMessage, DictionaryClassMessage, ForeignDictionaryGet, ArrayOther,
     StringOther}

\* The receiver: M.isReceiverSelfOrSuper(), and M.getReceiverSVal() with
\* whether it is defined or unknown and what the solver says of it.
SelfReceiver ==
    [selfOrSuper |-> TRUE, defined |-> TRUE, val |-> OtherVal,
     nullness |-> "IsNotNull"]
UndefinedReceiver ==
    [selfOrSuper |-> FALSE, defined |-> FALSE, val |-> OtherVal,
     nullness |-> "Unknown"]
Receivers ==
    [selfOrSuper : {FALSE}, defined : {TRUE}, val : PointerVals,
     nullness : NullConstraint]
    \cup {SelfReceiver, UndefinedReceiver}

\* The method has a declaration with a pointer return type, or the first
\* that fails.
MessageGuards == {"ok", "noDecl", "notPointer"}

\* val: M.getReturnValue(); ret: the annotation of the return type;
\* property: M.getMessageKind() == OCM_PropertyAccess; wasInlined:
\* C.wasInlined.
MessageDefault ==
    [guard |-> "ok", shape |-> PlainMessage, val |-> OtherVal,
     receiver |-> SelfReceiver, ret |-> Unspecified, property |-> FALSE,
     wasInlined |-> FALSE]

MessageInputs ==
    [guard : {"ok"}, shape : MessageShapes, val : PointerVals,
     receiver : Receivers, ret : Annotations, property : BOOLEAN,
     wasInlined : BOOLEAN]
    \cup
    {[MessageDefault EXCEPT !.guard = g] : g \in MessageGuards \ {"ok"}}

\* The messages the path is driven with: every shape with every return
\* region, and every receiver, return annotation and property access for
\* the messages no heuristic matches.  The inputs left out are read by no
\* branch these do not take.
MessageEvents ==
    [guard : {"ok"}, shape : MessageShapes, val : PointerVals,
     receiver : {SelfReceiver}, ret : {Unspecified}, property : {FALSE},
     wasInlined : {FALSE}]
    \cup
    [guard : {"ok"}, shape : {PlainMessage},
     val : {SymVal(r) : r \in Regions}, receiver : Receivers,
     ret : Annotations, property : BOOLEAN, wasInlined : {FALSE}]
    \cup
    {[MessageDefault EXCEPT !.guard = g] : g \in MessageGuards \ {"ok"}}

getReceiverNullabilityTrackedFirst(receiver, st) ==
    IF receiver.selfOrSuper THEN Nonnull
    ELSE IF /\ receiver.defined
            /\ getTrackRegion(receiver.val, FALSE) # NoRegion
            /\ IsTracked(st, getTrackRegion(receiver.val, FALSE))
    THEN st[getTrackRegion(receiver.val, FALSE)].value
    ELSE IF receiver.defined /\ receiver.nullness = "IsNotNull" THEN Nonnull
    ELSE Unspecified

getReceiverNullability(receiver, st) ==
    IF receiver.selfOrSuper THEN Nonnull
    ELSE
    LET SelfRegion == IF receiver.defined
                      THEN getTrackRegion(receiver.val, FALSE)
                      ELSE NoRegion
        Looked == IF SelfRegion # NoRegion /\ IsTracked(st, SelfRegion)
                  THEN st[SelfRegion].value
                  ELSE Unspecified
    IN  IF receiver.defined /\ receiver.nullness = "IsNotNull"
        THEN Nonnull
        ELSE Looked

IsSuppressedDictionaryOnly(shape) ==
    shape.ns /\ shape.instance /\ shape.dictionary

\* The heuristics for the Cocoa classes.
IsSuppressed(shape) ==
    /\ shape.ns
    /\ \/ shape.instance /\ shape.dictionary
       \/ shape.array /\ shape.slot0 \in {"firstObject", "lastObject"}
       \/ shape.string /\ shape.encoding

MessageRetNullabilityDeclared(M) == M.ret

\* The annotation of the return type, not trusted for a property that was
\* not inlined.
MessageRetNullability(M) ==
    IF M.property /\ ~M.wasInlined THEN Nonnull ELSE M.ret

\* Message->getInstanceReceiver(): the receiver expression of an instance
\* message, and nullptr for a class message.
getInstanceReceiver(M) ==
    IF M.shape.instance THEN "Receiver" ELSE NoStmt

checkPostObjCMessage(st, filter, M) ==
    LET ReturnRegion == getTrackRegion(M.val, FALSE)
        SelfNullability == getReceiverNullability(M.receiver, st)
    IN  IF M.guard # "ok" THEN Continue(st)
        ELSE IF ReturnRegion = NoRegion THEN Continue(st)
        ELSE IF IsSuppressed(M.shape)
        THEN Continue(SetMap(st, ReturnRegion,
                             NullabilityState(Contradicted, NoStmt)))
        ELSE IF IsTracked(st, ReturnRegion)
        THEN LET RetValTracked == st[ReturnRegion].value
                 ComputedNullab ==
                     getMostNullable(RetValTracked, SelfNullability)
                 NullabilitySource ==
                     IF ComputedNullab = RetValTracked
                     THEN st[ReturnRegion].source
                     ELSE getInstanceReceiver(M)
             IN  IF /\ ComputedNullab # RetValTracked
                    /\ ComputedNullab # Unspecified
                 THEN Continue(SetMap(st, ReturnRegion,
                          NullabilityState(ComputedNullab, NullabilitySource)))
                 ELSE Continue(st)
        ELSE LET RetNullability == MessageRetNullability(M)
                 ComputedNullab ==
                     getMostNullable(RetNullability, SelfNullability)
                 NullabilitySource ==
                     IF ComputedNullab = RetNullability
                     THEN "Message"
                     ELSE getInstanceReceiver(M)
             IN  IF ComputedNullab = Nullable
                 THEN Continue(SetMap(st, ReturnRegion,
                          NullabilityState(ComputedNullab, NullabilitySource)))
                 ELSE Continue(st)

---------------------------------------------------------------------------
(* checkPostStmt, the callback after an ExplicitCastExpr *)

\* Origin and destination types are pointer types, or the first that is not.
CastGuards == {"ok", "originNotPointer", "destNotPointer"}

\* dest: the annotation of the destination type; defined: the value of the
\* cast expression is defined or unknown.  When it is not, the handler
\* reads an empty Optional: traps says that stops the analyzer, and when it
\* does not, val and nullness are whatever was read.
CastInputs ==
    [guard : {"ok"}, dest : Annotations, defined : {TRUE}, traps : {FALSE},
     val : PointerVals, nullness : NullConstraint]
    \cup
    [guard : {"ok"}, dest : Annotations, defined : {FALSE}, traps : {FALSE},
     val : PointerVals, nullness : NullConstraint]
    \cup
    [guard : {"ok"}, dest : Annotations, defined : {FALSE}, traps : {TRUE},
     val : {OtherVal}, nullness : {"Unknown"}]
    \cup
    [guard : CastGuards \ {"ok"}, dest : {Unspecified}, defined : {TRUE},
     traps : {FALSE}, val : {OtherVal}, nullness : {"Unknown"}]

CastTrackedRecast(st, Region, DestNullability) ==
    IF st[Region].value # DestNullability
    THEN Continue(SetMap(st, Region,
                         NullabilityState(DestNullability, "CastExpr")))
    ELSE Continue(st)

CastTrackedKeep(st, Region, DestNullability) == Continue(st)

CastTrackedContradicts(st, Region, DestNullability) ==
    Continue(SetMap(st, Region, NullabilityState(Contradicted, NoStmt)))

\* The end of the handler: the region is tracked.
CastTracked(st, Region, DestNullability) ==
    IF /\ st[Region].value # DestNullability
       /\ st[Region].value # Contradicted
    THEN Continue(SetMap(st, Region, NullabilityState(Contradicted, NoStmt)))
    ELSE Continue(st)

checkPostStmt(st, filter, CE) ==
    LET DestNullability == CE.dest
        Region == getTrackRegion(CE.val, FALSE)
    IN  IF CE.guard # "ok" THEN Continue(st)
        ELSE IF DestNullability = Unspecified THEN Continue(st)
        ELSE IF ~CE.defined /\ CE.traps THEN Fault(st)
        ELSE IF Region = NoRegion THEN Continue(st)
        ELSE IF DestNullability = Nonnull /\ CE.nullness = "IsNull"
        THEN Continue(SetMap(st, Region,
                             NullabilityState(Contradicted, NoStmt)))
        ELSE IF ~IsTracked(st, Region)
        THEN IF DestNullability # Nullable THEN Continue(st)
             ELSE Continue(SetMap(st, Region,
                      NullabilityState(DestNullability, "CastExpr")))
        ELSE CastTracked(st, Region, DestNullability)

---------------------------------------------------------------------------
(* checkDeadSymbols *)

\* The sets of regions SymbolReaper::isLiveRegion can answer for.
LiveSets == SUBSET Regions

\* The local State of the handler after its loop.
DeadSymbolsCleaned(st, live) ==
    [r \in Regions |->
        IF IsTracked(st, r) /\ r \notin live THEN Untracked ELSE st[r]]

checkDeadSymbolsCommitted(st, filter, live) ==
    Continue(DeadSymbolsCleaned(st, live))

\* The handler ends without C.addTransition(State): the cleaned state is
\* dropped, and the path goes on from the state it had.
checkDeadSymbols(st, filter, live) ==
    LET Cleaned == DeadSymbolsCleaned(st, live)
    IN  Continue(st)

---------------------------------------------------------------------------
(* checkEvent, the callback of an ImplicitNullDerefEvent *)

\* Event.Location and Event.IsDirectDereference.  The event's SinkNode is
\* the engine's node for the null branch of the dereference; its state
\* carries the map of the path, which goes on along the other branch.
DerefInputs ==
    [loc : PointerVals \cup SubVals, isDirect : BOOLEAN]

checkEvent(st, filter, Event) ==
    LET Region == getTrackRegion(Event.loc, TRUE)
    IN  IF Region = NoRegion THEN Continue(st)
        ELSE IF ~IsTracked(st, Region) THEN Continue(st)
        ELSE IF /\ "NullableDereferenced" \in filter
                /\ st[Region].value = Nullable
        THEN IF Event.isDirect
             THEN Advisory(st, reportBug("NullableDereferenced", Region, 0))
             ELSE Advisory(st, reportBug("NullablePassedToNonnull",
                                         Region, 0))
        ELSE Continue(st)

---------------------------------------------------------------------------
(* NullabilityBugVisitor::VisitNode *)

\* nullptr, and PathDiagnosticEventPiece(Pos, "Nullability '...' is
\* infered"): the statement of its position and the value its text names.
NoPiece == [pos |-> NoStmt, value |-> -1]
EventPiece(S, Nullab) == [pos |-> S, value |-> Nullab]

\* N->getLocation() as a StmtPoint, when it is one.
StmtPoints == {NoStmt, "NodeStmt"}

VisitNodeComparesEntries(state, statePrev, ProgLoc, Region) ==
    IF ~IsTracked(state, Region) THEN NoPiece
    ELSE IF statePrev[Region] = state[Region] THEN NoPiece
    ELSE LET S == IF state[Region].source # NoStmt
                  THEN state[Region].source
                  ELSE ProgLoc
         IN  IF S = NoStmt THEN NoPiece
             ELSE EventPiece(S, state[Region].value)

\* state and statePrev are the maps of N and PrevN, ProgLoc the statement
\* point of N, Region the visitor's region.
VisitNode(state, statePrev, ProgLoc, Region) ==
    IF ~IsTracked(state, Region) THEN NoPiece
    ELSE IF /\ IsTracked(statePrev, Region)
            /\ statePrev[Region].value = state[Region].value
    THEN NoPiece
    ELSE LET S == IF state[Region].source # NoStmt
                  THEN state[Region].source
                  ELSE ProgLoc
         IN  IF S = NoStmt THEN NoPiece
             ELSE EventPiece(S, state[Region].value)

---------------------------------------------------------------------------
(* The path. *)

NoStage == [r \in Regions |-> "none"]

\* The events each branch of a path has after the branching point.
MaxBranchEvents == 2

\* No node of the path has a trail event for any region.
NoTrail == [r \in Regions |-> 0]

\* The state values that the nodes of two branches can hold: the one of
\* the branching point (0) and one for every event of each branch.
NodeIds == 0 .. (2 * MaxBranchEvents)

\* The path has not branched: there is no sibling.
NoFork ==
    [forked |-> FALSE, base |-> EmptyMap, mine |-> <<>>, theirs |-> <<>>,
     heap |-> [n \in NodeIds |-> EmptyMap], mineRef |-> 0, theirRef |-> 0,
     state |-> EmptyMap, status |-> "running"]

Init ==
    /\ Filter \in Configs
    /\ State = EmptyMap
    /\ report = NoReport
    /\ status = "running"
    /\ stage = NoStage
    /\ fork = NoFork
    /\ trail = NoTrail

\* The engine takes the callback's outcome as the path's next node.
Apply(o) ==
    /\ status = "running"
    /\ State' = o.state
    /\ report' = o.report
    /\ status' = o.status
    /\ UNCHANGED <<Filter, fork, trail>>

Bind ==
    \E b \in BindInputs :
        Apply(checkBind(State, Filter, b)) /\ UNCHANGED stage

PreStmt ==
    \E s \in ReturnInputs :
        Apply(checkPreStmt(State, Filter, s)) /\ UNCHANGED stage

\* The calls a path is driven with.
PathCalls == Calls(MaxParamsPath)

PreCall ==
    \E c \in PathCalls :
        Apply(checkPreCall(State, Filter, c)) /\ UNCHANGED stage

PostCall ==
    \E c \in PostCallInputs :
        Apply(checkPostCall(State, Filter, c)) /\ UNCHANGED stage

PostObjCMessage ==
    \E m \in MessageEvents :
        Apply(checkPostObjCMessage(State, Filter, m)) /\ UNCHANGED stage

PostStmt ==
    \E c \in CastInputs :
        Apply(checkPostStmt(State, Filter, c)) /\ UNCHANGED stage

DeadSymbols ==
    \E live \in LiveSets :
        Apply(checkDeadSymbols(State, Filter, live)) /\ UNCHANGED stage

ImplicitDeref ==
    \E e \in DerefInputs :
        Apply(checkEvent(State, Filter, e)) /\ UNCHANGED stage

Next ==
    \/ Bind
    \/ PreStmt
    \/ PreCall
    \/ PostCall
    \/ PostObjCMessage
    \/ PostStmt
    \/ DeadSymbols
    \/ ImplicitDeref

\* One path of the exploded graph, driven with every callback.
Spec == Init /\ [][Next]_vars

---------------------------------------------------------------------------
(* Calls with several parameters, on locations that calls returned. *)

AllCalls == Calls(MaxParams)

LongPreCall ==
    \E c \in AllCalls :
        Apply(checkPreCall(State, Filter, c)) /\ UNCHANGED stage

NextCall ==
    \/ PostCall
    \/ LongPreCall

SpecCall == Init /\ [][NextCall]_vars

---------------------------------------------------------------------------
(* A path whose history records, for each region, whether an ordinary    *)
(* call declared to return Nullable has returned it fresh ("called") and  *)
(* whether an explicit cast to a Nonnull type has then been applied to it *)
(* ("cast"), as in testCast.                                              *)

StageAfterCall(c) ==
    LET Region == getTrackRegion(c.val, FALSE)
    IN  IF /\ c.guard = "ok"
           /\ Region # NoRegion
           /\ ~c.inCGFile
           /\ ~IsTracked(State, Region)
           /\ c.ret = Nullable
        THEN [stage EXCEPT ![Region] = "called"]
        ELSE stage

StageAfterCast(CE) ==
    LET Region == getTrackRegion(CE.val, FALSE)
    IN  IF /\ CE.guard = "ok"
           /\ CE.defined
           /\ CE.dest = Nonnull
           /\ Region # NoRegion
           /\ stage[Region] = "called"
        THEN [stage EXCEPT ![Region] = "cast"]
        ELSE stage

StagedPostCall ==
    \E c \in PostCallInputs :
        Apply(checkPostCall(State, Filter, c)) /\ stage' = StageAfterCall(c)

StagedPostStmt ==
    \E c \in CastInputs :
        Apply(checkPostStmt(State, Filter, c)) /\ stage' = StageAfterCast(c)

\* The history also records a region that a message matching a heuristic
\* for the Cocoa classes has returned ("suppressed"), when it records
\* nothing else of the region.
StageAfterMessage(M) ==
    LET Region == getTrackRegion(M.val, FALSE)
    IN  IF /\ M.guard = "ok"
           /\ Region # NoRegion
           /\ IsSuppressed(M.shape)
           /\ stage[Region] = "none"
        THEN [stage EXCEPT ![Region] = "suppressed"]
        ELSE stage

StagedPostObjCMessage ==
    \E m \in MessageEvents :
        /\ Apply(checkPostObjCMessage(State, Filter, m))
        /\ stage' = StageAfterMessage(m)

NextCast ==
    \/ Bind
    \/ PreStmt
    \/ PreCall
    \/ StagedPostCall
    \/ StagedPostObjCMessage
    \/ StagedPostStmt
    \/ DeadSymbols
    \/ ImplicitDeref

SpecCast == Init /\ [][NextCast]_vars

---------------------------------------------------------------------------
(* Properties of the map along a path. *)

\* C1: Contradicted is absorbing.  A region whose tracked nullability is
\* Contradicted in one state of a path has Contradicted in the next state
\* whenever it is still tracked there, whatever callback made the step.
C1_ContradictedIsAbsorbing ==
    [][\A r \in Regions :
          (State[r].value = Contradicted /\ IsTracked(State', r))
              => State'[r].value = Contradicted]_vars

\* A region is Contradicted and the callback that has just run left a
\* diagnostic without touching the map: a step was taken from a state with
\* a Contradicted region.
C1_Witness ==
    /\ \E r \in Regions : State[r].value = Contradicted
    /\ report.kind # "None"
    /\ status = "running"

\* C2: sparsity.  In every reachable state every entry of the map has the
\* value Nullable or Contradicted; Unspecified and Nonnull are never stored,
\* not even by the merge of a tracked message result with its receiver.
C2_OnlyNullableOrContradictedStored ==
    \A r \in Regions :
        IsTracked(State, r) => State[r].value \in {Nullable, Contradicted}

\* The merge has rewritten a tracked message result from its receiver.
C2_Witness ==
    \E r \in Regions : State[r] = NullabilityState(Contradicted, "Receiver")

\* C3: after checkDeadSymbols with a live set that does not contain a
\* tracked region, the region is absent from the map of the successor
\* state, and every entry of a live region is kept as it was.
C3_DeadEntriesAreRemoved ==
    \A live \in LiveSets : \A r \in Regions :
        LET After == checkDeadSymbols(State, Filter, live).state
        IN  /\ (IsTracked(State, r) /\ r \notin live) => After[r] = Untracked
            /\ r \in live => After[r] = State[r]

---------------------------------------------------------------------------
(* Properties of the diagnostics of checkPreCall. *)

\* The parameters of call before position i, as a call of their own.
Before(call, i) == [call EXCEPT !.params = SubSeq(call.params, 1, i - 1)]

\* State when the loop of checkPreCall arrives at position i of call.
LoopState(call, i) == checkPreCall(State, Filter, Before(call, i)).state

\* Position i of call is one the loop pairs with an argument: the loop has
\* not stopped at a pack before it.
Paired(call, i) == \A j \in 1..(i - 1) : ~call.params[j].pack

\* The loop arrives at position i of call: no parameter before i has ended
\* the handler with a diagnostic or a fault.
Arrives(call, i) ==
    /\ Paired(call, i)
    /\ checkPreCall(State, Filter, Before(call, i)).report = NoReport
    /\ checkPreCall(State, Filter, Before(call, i)).status = "running"

\* The loop looks at the parameter: it is no pack, it has a pointer or a
\* reference type, and its argument is there with a defined or unknown value.
Examined(Param) ==
    /\ ~Param.pack
    /\ Param.hasArg
    /\ Param.defined
    /\ Param.ptype \in {"ptr", "ref"}

\* The argument is proven null, is not annotated Nonnull, and the parameter
\* is declared Nonnull.
NullToNonnull(Param) ==
    /\ Examined(Param)
    /\ Param.nullness = "IsNull"
    /\ Param.argStatic # Nonnull
    /\ Param.param = Nonnull

\* The argument's region is tracked Nullable in st, it is not proven
\* non-null, and the parameter is declared Nonnull.
NullableToNonnull(Param, st) ==
    /\ Examined(Param)
    /\ getTrackRegion(Param.val, FALSE) # NoRegion
    /\ st[getTrackRegion(Param.val, FALSE)].value = Nullable
    /\ Param.nullness # "IsNotNull"
    /\ Param.param = Nonnull

\* C4, as stated: in every checkPreCall, at every parameter position i
\* paired with an argument and with any other arguments, an argument that
\* is tracked Nullable and not proven non-null for a parameter declared
\* Nonnull makes the handler (with NullablePassedToNonnull enabled) report
\* NullablePassedToNonnull and end the path.
C4_NullablePassedAtAnyPosition ==
    (status = "running" /\ "NullablePassedToNonnull" \in Filter) =>
    \A call \in AllCalls : \A i \in 1..Len(call.params) :
        (NullableToNonnull(call.params[i], State) /\ Paired(call, i)) =>
            /\ checkPreCall(State, Filter, call).report.kind
                   = "NullablePassedToNonnull"
            /\ checkPreCall(State, Filter, call).status = "sink"

\* C4, amended: the same, for a position i the loop arrives at and an
\* argument that is not reported as a null passed to Nonnull (it is not
\* proven null, or it is annotated Nonnull, or NullPassedToNonnull is
\* disabled); the diagnostic is about argument i and its region.
C4_NullablePassedWhenReached ==
    (status = "running" /\ "NullablePassedToNonnull" \in Filter) =>
    \A call \in AllCalls : \A i \in 1..Len(call.params) :
        (/\ NullableToNonnull(call.params[i], State)
         /\ Arrives(call, i)
         /\ ~("NullPassedToNonnull" \in Filter /\ NullToNonnull(call.params[i])))
        => /\ checkPreCall(State, Filter, call).report
                  = reportBug("NullablePassedToNonnull",
                              getTrackRegion(call.params[i].val, FALSE), i)
           /\ checkPreCall(State, Filter, call).status = "sink"

\* A call has ended the path with NullablePassedToNonnull for the argument
\* at the last position of a longest parameter list.
C4_Witness ==
    /\ report.kind = "NullablePassedToNonnull"
    /\ report.arg = MaxParams
    /\ status = "sink"

\* A rule of the call-argument check is violated at the parameter, the
\* loop's state being st: a null or a tracked Nullable argument for a
\* Nonnull parameter, or a tracked Nullable argument for a reference.
Violating(Param, st) ==
    \/ NullToNonnull(Param)
    \/ NullableToNonnull(Param, st)
    \/ NullableToNonnull([Param EXCEPT !.param = Nonnull], st)
           /\ Param.ptype = "ref"

\* Position i holds the first violating parameter of call.
FirstViolating(call, i) ==
    /\ Violating(call.params[i], LoopState(call, i))
    /\ \A j \in 1..(i - 1) : ~Violating(call.params[j], LoopState(call, j))

\* C6, as stated: in every checkPreCall whose first violating parameter,
\* at a position paired with an argument, has an argument proven null and
\* not annotated Nonnull while the parameter is declared Nonnull,
\* NilPassedToNonnull is reported and the path ends.
C6_NullPassedIsReportedAndFatal ==
    status = "running" =>
    \A call \in AllCalls : \A i \in 1..Len(call.params) :
        (/\ NullToNonnull(call.params[i])
         /\ FirstViolating(call, i)
         /\ Paired(call, i))
        => /\ checkPreCall(State, Filter, call).report.kind
                  = "NilPassedToNonnull"
           /\ checkPreCall(State, Filter, call).status = "sink"

\* C6, amended: the same when NullPassedToNonnull is enabled; the
\* diagnostic is about that argument.
C6_NullPassedIsFatalWhenEnabled ==
    (status = "running" /\ "NullPassedToNonnull" \in Filter) =>
    \A call \in AllCalls : \A i \in 1..Len(call.params) :
        (/\ NullToNonnull(call.params[i])
         /\ FirstViolating(call, i)
         /\ Paired(call, i))
        => /\ checkPreCall(State, Filter, call).report
                  = reportBug("NilPassedToNonnull", NoRegion, i)
           /\ checkPreCall(State, Filter, call).status = "sink"

\* A call has ended the path with NilPassedToNonnull for its last argument
\* while a region was tracked.
C6_Witness ==
    /\ report.kind = "NilPassedToNonnull"
    /\ report.arg = MaxParams
    /\ status = "sink"
    /\ \E r \in Regions : IsTracked(State, r)

---------------------------------------------------------------------------
(* Properties of the diagnostics of checkBind and checkPreStmt. *)

\* C5: in every checkBind into a location declared Nonnull of a value that
\* is proven null, with NullPassedToNonnull enabled, NilAssignedToNonnull
\* is reported exactly when the value's static annotation is not Nonnull;
\* when it is reported the path goes on and the map is unchanged.
C5_NullAssignedIffValueNotNonnull ==
    (status = "running" /\ "NullPassedToNonnull" \in Filter) =>
    \A b \in BindInputs :
        (b.guard = "ok" /\ b.loc = Nonnull /\ b.nullness = "IsNull") =>
        LET o == checkBind(State, Filter, b)
        IN  /\ (o.report.kind = "NilAssignedToNonnull")
                   <=> (BindValNullability(b) # Nonnull)
            /\ (o.report.kind = "NilAssignedToNonnull")
                   => (o.status = "running" /\ o.state = State)

\* A bind has reported NilAssignedToNonnull on a path that tracks a region,
\* and the path goes on.
C5_Witness ==
    /\ report.kind = "NilAssignedToNonnull"
    /\ status = "running"
    /\ \E r \in Regions : IsTracked(State, r)

\* C7: in every checkPreStmt whose returned value is proven null in a
\* function declared to return Nonnull, NilReturnedToNonnull is reported
\* (NullReturnedFromNonnull being enabled), and the path on which it has
\* been reported has ended.
C7_NullReturnedIsFatal ==
    /\ (status = "running" /\ "NullReturnedFromNonnull" \in Filter) =>
       \A s \in ReturnInputs :
           (s.guard = "ok" /\ s.nullness = "IsNull" /\ s.static = Nonnull)
           => checkPreStmt(State, Filter, s).report.kind
                  = "NilReturnedToNonnull"
    /\ report.kind = "NilReturnedToNonnull" => status = "sink"

---------------------------------------------------------------------------
(* Properties of Contradicted regions and of the filter. *)

\* The positions of call whose argument the loop examines and whose value
\* is the symbolic region r.
ArgumentsOf(call, r) ==
    {i \in 1..Len(call.params) :
        Examined(call.params[i]) /\ call.params[i].val = SymVal(r)}

\* C8: once a region is Contradicted, no callback whose checked value
\* resolves to the region emits a diagnostic, whatever the solver says of
\* the value: not checkBind, checkPreStmt or checkEvent, and checkPreCall
\* none about an argument with that value.
C8_NoDiagnosticOnContradicted ==
    status = "running" =>
    \A r \in Regions : State[r].value = Contradicted =>
        /\ \A b \in BindInputs :
               (b.guard = "ok" /\ b.val = SymVal(r))
               => checkBind(State, Filter, b).report = NoReport
        /\ \A s \in ReturnInputs :
               (s.guard = "ok" /\ s.val = SymVal(r))
               => checkPreStmt(State, Filter, s).report = NoReport
        /\ \A call \in PathCalls :
               checkPreCall(State, Filter, call).report.arg
                   \notin ArgumentsOf(call, r)
        /\ \A e \in DerefInputs :
               getTrackRegion(e.loc, TRUE) = r
               => checkEvent(State, Filter, e).report = NoReport

\* Both outcomes leave the path running with the same map, unless one of
\* them ends the path.
SameMap(o1, o2) ==
    (o1.status = "running" /\ o2.status = "running") => o1.state = o2.state

\* C9: the map does not depend on the filter.  From the same state, every
\* callback run on the same input under any two settings of the flags
\* leaves the same map, when the path goes on under both.
C9_MapIndependentOfFilter ==
    status = "running" =>
    \A f \in Configs :
        /\ \A b \in BindInputs :
               SameMap(checkBind(State, Filter, b), checkBind(State, f, b))
        /\ \A s \in ReturnInputs :
               SameMap(checkPreStmt(State, Filter, s),
                       checkPreStmt(State, f, s))
        /\ \A c \in PathCalls :
               SameMap(checkPreCall(State, Filter, c),
                       checkPreCall(State, f, c))
        /\ \A c \in PostCallInputs :
               SameMap(checkPostCall(State, Filter, c),
                       checkPostCall(State, f, c))
        /\ \A m \in MessageEvents :
               SameMap(checkPostObjCMessage(State, Filter, m),
                       checkPostObjCMessage(State, f, m))
        /\ \A c \in CastInputs :
               SameMap(checkPostStmt(State, Filter, c),
                       checkPostStmt(State, f, c))
        /\ \A live \in LiveSets :
               SameMap(checkDeadSymbols(State, Filter, live),
                       checkDeadSymbols(State, f, live))
        /\ \A e \in DerefInputs :
               SameMap(checkEvent(State, Filter, e), checkEvent(State, f, e))

\* C10: a region that an ordinary call declared to return Nullable has
\* returned fresh and that an explicit cast to a Nonnull type has then been
\* applied to is Contradicted, and from then on no use of it against a
\* Nonnull requirement with a solver that knows nothing emits a diagnostic:
\* no checkBind into a Nonnull location, no checkPreStmt in a function
\* returning Nonnull, no checkEvent, and checkPreCall none about an argument
\* with that value.
C10_CastToNonnullIsTrusted ==
    \A r \in Regions : stage[r] = "cast" =>
        /\ State[r].value = Contradicted
        /\ status = "running" =>
           /\ \A b \in BindInputs :
                  (/\ b.guard = "ok" /\ b.val = SymVal(r)
                   /\ b.nullness = "Unknown" /\ b.loc = Nonnull)
                  => checkBind(State, Filter, b).report = NoReport
           /\ \A s \in ReturnInputs :
                  (/\ s.guard = "ok" /\ s.val = SymVal(r)
                   /\ s.nullness = "Unknown" /\ s.static = Nonnull)
                  => checkPreStmt(State, Filter, s).report = NoReport
           /\ \A call \in PathCalls :
                  checkPreCall(State, Filter, call).report.arg \notin
                      {i \in ArgumentsOf(call, r) :
                          call.params[i].nullness = "Unknown"}
           /\ \A e \in DerefInputs :
                  getTrackRegion(e.loc, TRUE) = r
                  => checkEvent(State, Filter, e).report = NoReport

\* A region has been returned by such a call and then cast to Nonnull, and
\* the path runs on with every flag of the filter set.
C10_Witness ==
    /\ \E r \in Regions : stage[r] = "cast"
    /\ status = "running"
    /\ Filter = Checks

---------------------------------------------------------------------------
(* Properties of the answers of the solver. *)

\* The diagnostics about a tracked Nullable value.
NullableKinds ==
    {"NullableAssignedToNonnull", "NullablePassedToNonnull",
     "NullableDereferenced", "NullableReturnedToNonnull"}

\* takesNonnull(p) and the like: a call that passes the value of region r,
\* of which the solver says nullness, for one pointer parameter declared
\* with the annotation param.
PassTo(r, nullness, param) ==
    [hasDecl |-> TRUE,
     params |-> <<[ParamDefault EXCEPT !.val = SymVal(r),
                                       !.nullness = nullness,
                                       !.param = param]>>]

\* C11: when the solver proves the checked value non-null, checkBind,
\* checkPreCall and checkPreStmt emit none of the diagnostics about a
\* Nullable value for it (checkPreCall none about an argument proven
\* non-null), whatever is tracked for its region and whatever the target
\* declares, and they leave a tracked entry of the region as it was.
C11_ProvenNonNullOverridesTracked ==
    status = "running" =>
    \A r \in Regions :
        /\ \A b \in BindInputs :
               (b.guard = "ok" /\ b.val = SymVal(r) /\ b.nullness = "IsNotNull")
               => LET o == checkBind(State, Filter, b)
                  IN  /\ o.report.kind \notin NullableKinds
                      /\ IsTracked(State, r) => o.state[r] = State[r]
        /\ \A s \in ReturnInputs :
               (s.guard = "ok" /\ s.val = SymVal(r) /\ s.nullness = "IsNotNull")
               => LET o == checkPreStmt(State, Filter, s)
                  IN  /\ o.report.kind \notin NullableKinds
                      /\ IsTracked(State, r) => o.state[r] = State[r]
        /\ \A call \in PathCalls :
               LET o == checkPreCall(State, Filter, call)
                   Proven == {i \in ArgumentsOf(call, r) :
                                 call.params[i].nullness = "IsNotNull"}
               IN  Proven # {} =>
                       /\ o.report.kind \in NullableKinds
                              => o.report.arg \notin Proven
                       /\ IsTracked(State, r) => o.state[r] = State[r]

\* As after if (p) in testBasicRules: a region is tracked Nullable, passing
\* it to a Nonnull parameter is reported while the solver knows nothing, and
\* is not once the solver proves it non-null.
C11_Witness ==
    /\ status = "running"
    /\ \E r \in Regions :
           /\ State[r].value = Nullable
           /\ checkPreCall(State, Filter, PassTo(r, "Unknown", Nonnull))
                  .report.kind = "NullablePassedToNonnull"
           /\ checkPreCall(State, Filter, PassTo(r, "IsNotNull", Nonnull))
                  .report = NoReport

---------------------------------------------------------------------------
(* Properties of checkPostObjCMessage. *)

\* The messages with a return region that match a heuristic, with every
\* receiver and return annotation.
SuppressedMessages ==
    [guard : {"ok"}, shape : SuppressedShapes,
     val : {SymVal(r) : r \in Regions}, receiver : Receivers,
     ret : Annotations, property : {FALSE}, wasInlined : {FALSE}]

\* C12: after checkPostObjCMessage for a message that matches a heuristic
\* (an instance message to an NS...Dictionary class, firstObject or
\* lastObject of an NS...Array class, a method of an NS...String class with
\* a parameter named encoding) the return region is tracked Contradicted,
\* whatever the return annotation, the receiver and the entry the region
\* had; and on the rest of the path checkPreCall emits no diagnostic about
\* such a region passed for a Nonnull parameter while the solver knows
\* nothing of it.
C12_HeuristicsSuppress ==
    /\ status = "running" =>
       \A m \in SuppressedMessages :
           checkPostObjCMessage(State, Filter, m) =
               Continue(SetMap(State, getTrackRegion(m.val, FALSE),
                               NullabilityState(Contradicted, NoStmt)))
    /\ \A r \in Regions : stage[r] = "suppressed" =>
           /\ State[r].value = Contradicted
           /\ status = "running" =>
              \A call \in PathCalls :
                  checkPreCall(State, Filter, call).report.arg \notin
                      {i \in ArgumentsOf(call, r) :
                          /\ call.params[i].nullness = "Unknown"
                          /\ call.params[i].param = Nonnull}

\* A message matching a heuristic has returned a region on a path that goes
\* on and reports Nullable values passed to Nonnull parameters.
C12_Witness ==
    /\ \E r \in Regions : stage[r] = "suppressed"
    /\ status = "running"
    /\ "NullablePassedToNonnull" \in Filter

---------------------------------------------------------------------------
(* Properties of what checkPreCall starts tracking. *)

\* A call that passes the value v for one pointer parameter, as PassTo.
PassVal(v, nullness, param) ==
    [hasDecl |-> TRUE,
     params |-> <<[ParamDefault EXCEPT !.val = v, !.nullness = nullness,
                                       !.param = param]>>]

\* The value resolves to no region or to a region that st does not track.
UntrackedVal(v, st) ==
    getTrackRegion(v, FALSE) # NoRegion => ~IsTracked(st, getTrackRegion(v, FALSE))

\* checkPreCall starts tracking a region only for an argument whose
\* expression is annotated Nullable.
TracksOnlyNullableArguments ==
    \A call \in PathCalls : \A r \in Regions :
        (/\ ~IsTracked(State, r)
         /\ IsTracked(checkPreCall(State, Filter, call).state, r))
        => \E i \in ArgumentsOf(call, r) : call.params[i].argStatic = Nullable

\* For the value v, with no annotation on its expression: a call passing it
\* for a Nullable parameter and then a call passing it for a Nonnull
\* parameter emit no diagnostic and leave the map as it was, the solver
\* saying first and then second of the value.
QuietThroughNullableThenNonnull(v, first, second) ==
    LET one == checkPreCall(State, Filter, PassVal(v, first, Nullable))
        two == checkPreCall(one.state, Filter, PassVal(v, second, Nonnull))
    IN  /\ one.report = NoReport
        /\ one.status = "running"
        /\ two.report = NoReport
        /\ two.state = State

\* C13, as stated: checkPreCall starts tracking an untracked argument only
\* when the argument expression is annotated Nullable, never because the
\* parameter is; hence for any untracked value without annotation, passing
\* it for a Nullable parameter and then for a Nonnull parameter emits no
\* diagnostic and leaves the map unchanged.
C13_NoPropagationFromParameters ==
    status = "running" =>
        /\ TracksOnlyNullableArguments
        /\ \A v \in PointerVals : \A first, second \in NullConstraint :
               UntrackedVal(v, State)
               => QuietThroughNullableThenNonnull(v, first, second)

\* C13, amended: the same, for a value that the solver does not prove null
\* at the second call.
C13_NoPropagationUnlessProvenNull ==
    status = "running" =>
        /\ TracksOnlyNullableArguments
        /\ \A v \in PointerVals : \A first, second \in NullConstraint :
               (UntrackedVal(v, State) /\ second # "IsNull")
               => QuietThroughNullableThenNonnull(v, first, second)

\* As in testInvalidPropagation, on a path that reports both kinds of
\* argument: a region is untracked while another is tracked Nullable, and
\* passing the untracked one with an expression annotated Nullable would
\* start tracking it.
C13_Witness ==
    /\ status = "running"
    /\ {"NullPassedToNonnull", "NullablePassedToNonnull"} \subseteq Filter
    /\ \E r, q \in Regions :
           /\ ~IsTracked(State, r)
           /\ State[q].value = Nullable
           /\ IsTracked(checkPreCall(State, Filter,
                  [hasDecl |-> TRUE,
                   params |-> <<[ParamDefault EXCEPT !.val = SymVal(r),
                                     !.argStatic = Nullable]>>]).state, r)

---------------------------------------------------------------------------
(* Properties of the merge in checkPostObjCMessage. *)

\* Messages that no heuristic matches and that return the region r: an
\* instance message and a class message, property accesses included.
UnsuppressedMessages(r) ==
    [guard : {"ok"}, shape : {PlainMessage, DictionaryClassMessage},
     val : {SymVal(r)}, receiver : Receivers, ret : Annotations,
     property : BOOLEAN, wasInlined : {FALSE}]

\* C14: checkPostObjCMessage, no heuristic matching, for a return region
\* that is tracked Nullable: with a receiver whose nullability is Nonnull,
\* Unspecified or Nullable nothing is reported and the entry stays as it
\* was, value and source; the entry changes only with a receiver whose
\* nullability is Contradicted, and then it becomes Contradicted (with the
\* receiver expression as source, which a class message has not), nothing
\* being reported.
C14_TrackedMergeIsMonotonic ==
    \A r \in Regions :
        State[r].value = Nullable =>
            \A m \in UnsuppressedMessages(r) :
                checkPostObjCMessage(State, Filter, m) =
                    IF getReceiverNullability(m.receiver, State) = Contradicted
                    THEN Continue(SetMap(State, r,
                             NullabilityState(Contradicted,
                                              getInstanceReceiver(m))))
                    ELSE Continue(State)

\* The merge has made a region Contradicted on account of a receiver that is
\* tracked Contradicted.
C14_Witness ==
    /\ status = "running"
    /\ \E r, q \in Regions :
           /\ r # q
           /\ State[q].value = Contradicted
           /\ State[r] = NullabilityState(Contradicted, "Receiver")

---------------------------------------------------------------------------
(* Properties of checkEvent. *)

\* The region owning a location: the region itself, or the aggregate a field
\* or an element belongs to; NoRegion when that is not symbolic.
Owner(loc) ==
    IF loc.kind \in {"symbolic", "field", "element"} THEN loc.base
    ELSE NoRegion

\* C15: with NullableDereferenced enabled, checkEvent reports if and only
\* if the owner of the event's location is tracked with value Nullable, an
\* untracked or Contradicted owner yielding no report; the report is
\* NullableDereferenced for a direct dereference and NullablePassedToNonnull
\* otherwise; the map is never changed by the event.
C15_DerefReportsIffOwnerNullable ==
    \A e \in DerefInputs :
        LET after == checkEvent(State, Filter, e)
            isNullable == /\ Owner(e.loc) # NoRegion
                          /\ State[Owner(e.loc)].value = Nullable
        IN  /\ after.state = State
            /\ "NullableDereferenced" \in Filter =>
                   after.report =
                       IF ~isNullable THEN NoReport
                       ELSE IF e.isDirect
                       THEN reportBug("NullableDereferenced", Owner(e.loc), 0)
                       ELSE reportBug("NullablePassedToNonnull",
                                      Owner(e.loc), 0)

\* A direct dereference of a Nullable region has been reported, while the
\* other region is tracked Contradicted.
C15_Witness ==
    /\ report.kind = "NullableDereferenced"
    /\ State[report.region].value = Nullable
    /\ \E q \in Regions : State[q].value = Contradicted

---------------------------------------------------------------------------
(* Properties of the second report of checkPreStmt. *)

\* return of the region r, of which the solver proves nothing, from a
\* function declared to return Nonnull.
ReturnOf(r) ==
    [guard |-> "ok", nullness |-> "Unknown", static |-> Nonnull,
     val |-> SymVal(r)]

\* C16, as stated: every checkPreStmt whose returned value is proven
\* neither null nor non-null and resolves to a region tracked Nullable, in a
\* function declared to return Nonnull, reports NullableReturnedToNonnull
\* with the region attached, the path going on with the map as it was.
C16_NullableReturnedIsReported ==
    status = "running" =>
        \A r \in Regions :
            State[r].value = Nullable =>
                checkPreStmt(State, Filter, ReturnOf(r)) =
                    Advisory(State,
                             reportBug("NullableReturnedToNonnull", r, 0))

\* C16, amended: the same, with NullableReturnedFromNonnull enabled.
C16_NullableReturnedWhenEnabled ==
    (status = "running" /\ "NullableReturnedFromNonnull" \in Filter) =>
        \A r \in Regions :
            State[r].value = Nullable =>
                checkPreStmt(State, Filter, ReturnOf(r)) =
                    Advisory(State,
                             reportBug("NullableReturnedToNonnull", r, 0))

\* NullableReturnedToNonnull has been reported about a region that is
\* tracked Nullable, on a path that goes on.
C16_Witness ==
    /\ report.kind = "NullableReturnedToNonnull"
    /\ status = "running"
    /\ State[report.region].value = Nullable

---------------------------------------------------------------------------
(* Properties of getMostNullable. *)

\* The smaller of two annotations in the order of the enumeration,
\* Contradicted < Nullable < Unspecified < Nonnull.
Minimum(a, b) == IF a <= b THEN a ELSE b

\* C17: getMostNullable is the minimum in the order Contradicted < Nullable
\* < Unspecified < Nonnull for all sixteen pairs; it is commutative and
\* idempotent, and getMostNullable(Contradicted, x) is Contradicted for
\* every x; so it is for the tracked value of a region, in either position.
C17_MostNullableIsMinimum ==
    LET Values == {Contradicted, Nullable, Unspecified, Nonnull}
    IN  /\ Cardinality(Values) = 4
        /\ Contradicted < Nullable /\ Nullable < Unspecified
        /\ Unspecified < Nonnull
        /\ \A a, b \in Values :
               /\ getMostNullable(a, b) = Minimum(a, b)
               /\ getMostNullable(a, b) = getMostNullable(b, a)
               /\ getMostNullable(a, a) = a
               /\ getMostNullable(Contradicted, b) = Contradicted
        /\ \A r \in Regions : \A b \in Values :
               IsTracked(State, r) =>
                   /\ getMostNullable(State[r].value, b)
                          = Minimum(State[r].value, b)
                   /\ getMostNullable(b, State[r].value)
                          = Minimum(State[r].value, b)

\* checkPostObjCMessage has merged a return annotation that is not Nullable
\* with a Nullable receiver.
C17_Witness ==
    \E r, q \in Regions :
        /\ r # q
        /\ State[q].value = Nullable
        /\ State[r] = NullabilityState(Nullable, "Receiver")

---------------------------------------------------------------------------
(* Properties of checkPostObjCMessage for an untracked return region. *)

\* The messages -[TestObject ...] that return the region r, property
\* accesses and inlined messages included.
PlainMessages(r) ==
    [guard : {"ok"}, shape : {PlainMessage}, val : {SymVal(r)},
     receiver : Receivers, ret : Annotations, property : BOOLEAN,
     wasInlined : BOOLEAN]

\* M.getReceiverSVal() of a class message: UnknownVal, of which nothing
\* is known.
ClassReceiver ==
    [selfOrSuper |-> FALSE, defined |-> TRUE, val |-> OtherVal,
     nullness |-> "Unknown"]

\* The class messages that no heuristic matches.
ClassMessages(r) ==
    [guard : {"ok"}, shape : {DictionaryClassMessage}, val : {SymVal(r)},
     receiver : {ClassReceiver}, ret : Annotations, property : BOOLEAN,
     wasInlined : BOOLEAN]

\* C18: checkPostObjCMessage, no heuristic matching, for an untracked
\* return region: the region is tracked Nullable afterwards exactly when
\* the minimum of R and S is Nullable, R being the annotation of the return
\* type, or Nonnull for a property access that was not inlined, and S the
\* nullability of the receiver; otherwise it stays untracked.  The source
\* stored is the message when R is Nullable and the receiver otherwise.
\* Checked for instance messages with every receiver and for class
\* messages.
C18_MessageResultIsMostNullable ==
    \A r \in Regions :
        ~IsTracked(State, r) =>
            \A m \in PlainMessages(r) \cup ClassMessages(r) :
                LET R == IF m.property /\ ~m.wasInlined THEN Nonnull
                         ELSE m.ret
                    S == getReceiverNullability(m.receiver, State)
                IN  checkPostObjCMessage(State, Filter, m) =
                        IF Minimum(R, S) # Nullable THEN Continue(State)
                        ELSE Continue(SetMap(State, r,
                                 NullabilityState(Nullable,
                                     IF R = Nullable THEN "Message"
                                     ELSE "Receiver")))

\* A message declared to return Nullable has started tracking its result
\* while the other region was tracked on account of its receiver.
C18_Witness ==
    /\ status = "running"
    /\ \E r, q \in Regions :
           /\ State[r] = NullabilityState(Nullable, "Message")
           /\ State[q].source = "Receiver"

---------------------------------------------------------------------------
(* A path that branches.  The states of the nodes are values in a store
   (heap), and a node holds a reference to its state; branching copies the
   reference of the node, not the state, so that the two branches start
   from one shared value.  fork holds the store, the references of the last
   node of each branch (mineRef, theirRef), the map the sibling observes
   (state) and whether it goes on (status); and, as history, the map at the
   branching point (base) and the events each branch has had since (mine,
   theirs).  State is the map this path observes. *)

\* The events the branches are driven with: a call passing the region r for
\* a Nonnull parameter, which starts tracking r when the argument is
\* annotated Nullable and reports when r is tracked Nullable or the value is
\* null; and a message -[NSDictionary objectForKey:] returning r, which
\* overwrites the entry of r.
BranchEvents ==
    [cb : {"PreCall"}, r : Regions, nullness : {"Unknown"},
     argStatic : {Nullable, Unspecified}]
    \cup
    [cb : {"PreCall"}, r : Regions, nullness : {"IsNull"},
     argStatic : {Unspecified}]
    \cup
    [cb : {"Message"}, r : Regions, nullness : {"Unknown"},
     argStatic : {Unspecified}]

RunEvent(st, filter, e) ==
    IF e.cb = "PreCall"
    THEN checkPreCall(st, filter,
             [hasDecl |-> TRUE,
              params |-> <<[ParamDefault EXCEPT !.val = SymVal(e.r),
                                !.nullness = e.nullness,
                                !.argStatic = e.argStatic,
                                !.param = Nonnull]>>])
    ELSE checkPostObjCMessage(st, filter,
             [MessageDefault EXCEPT !.shape = DictionaryGet,
                                    !.val = SymVal(e.r)])

\* The state that ref names is changed where it is, and the new node holds
\* the same reference.
SetInPlace(heap, ref, fresh, New) == [heap |-> [heap EXCEPT ![ref] = New], ref |-> ref]

\* State->set<NullabilityMap>(...) yields a new state value and leaves the
\* one it was called on as it is; addTransition puts the new value on a new
\* node of the branch that stepped.
SetOnBranch(heap, ref, fresh, New) == [heap |-> [heap EXCEPT ![fresh] = New], ref |-> fresh]

\* An event of the shared prefix.
PrefixStep ==
    /\ ~fork.forked
    /\ \E e \in BranchEvents : Apply(RunEvent(State, Filter, e))
    /\ UNCHANGED stage

\* The engine makes two successors of the node.
Branch ==
    /\ ~fork.forked
    /\ status = "running"
    /\ fork' = [forked |-> TRUE, base |-> State, mine |-> <<>>,
                theirs |-> <<>>,
                heap |-> [NoFork.heap EXCEPT ![0] = State],
                mineRef |-> 0, theirRef |-> 0,
                state |-> State, status |-> "running"]
    /\ UNCHANGED <<Filter, State, report, status, stage, trail>>

MineStep ==
    /\ fork.forked
    /\ status = "running"
    /\ Len(fork.mine) < MaxBranchEvents
    /\ \E e \in BranchEvents :
           LET o == RunEvent(fork.heap[fork.mineRef], Filter, e)
               b == SetOnBranch(fork.heap, fork.mineRef,
                                Len(fork.mine) + 1, o.state)
           IN  /\ State' = b.heap[b.ref]
               /\ report' = o.report
               /\ status' = o.status
               /\ fork' = [fork EXCEPT !.mine = Append(@, e),
                                       !.heap = b.heap,
                                       !.mineRef = b.ref,
                                       !.state = b.heap[fork.theirRef]]
    /\ UNCHANGED <<Filter, stage, trail>>

TheirStep ==
    /\ fork.forked
    /\ fork.status = "running"
    /\ Len(fork.theirs) < MaxBranchEvents
    /\ \E e \in BranchEvents :
           LET o == RunEvent(fork.heap[fork.theirRef], Filter, e)
               b == SetOnBranch(fork.heap, fork.theirRef,
                                MaxBranchEvents + Len(fork.theirs) + 1,
                                o.state)
           IN  /\ State' = b.heap[fork.mineRef]
               /\ fork' = [fork EXCEPT !.theirs = Append(@, e),
                                       !.heap = b.heap,
                                       !.theirRef = b.ref,
                                       !.state = b.heap[b.ref],
                                       !.status = o.status]
    /\ UNCHANGED <<Filter, report, status, stage, trail>>

NextFork ==
    \/ PrefixStep
    \/ Branch
    \/ MineStep
    \/ TheirStep

SpecFork == Init /\ [][NextFork]_vars

\* The map a branch has after the events of log, from the map st.
RECURSIVE Replay(_, _, _)
Replay(st, filter, log) ==
    IF log = <<>> THEN st
    ELSE Replay(RunEvent(st, filter, Head(log)).state, filter, Tail(log))

\* C19: after a path has branched, with the events of the two branches
\* interleaved in any order, the map of each branch is the one that the
\* shared prefix and the branch's own events determine: no entry that an
\* event of one branch adds or overwrites shows in the other's map, nor
\* in the state of the branching point that the two share.
C19_BranchesAreIsolated ==
    fork.forked =>
        /\ State = Replay(fork.base, Filter, fork.mine)
        /\ fork.state = Replay(fork.base, Filter, fork.theirs)
        /\ fork.heap[0] = fork.base

\* Both branches have had events, one has added an entry the other has not,
\* and the other has overwritten an entry of the prefix.
C19_Witness ==
    /\ fork.forked
    /\ fork.mine # <<>>
    /\ fork.theirs # <<>>
    /\ \E r, q \in Regions :
           /\ r # q
           /\ ~IsTracked(fork.base, r)
           /\ State[r].value = Nullable
           /\ ~IsTracked(fork.state, r)
           /\ fork.base[q].value = Nullable
           /\ fork.state[q].value = Contradicted
           /\ State[q] = fork.base[q]

---------------------------------------------------------------------------
(* Totality of checkPreCall. *)

\* C20: checkPreCall completes without fault for every call, a call with
\* fewer argument expressions than pointer or reference parameters
\* included: after it the path goes on with a state, or has ended on a
\* diagnostic.  (Stated of the paths of SpecCall, on which no callback but
\* checkPreCall can stop the analyzer.)
C20_PreCallIsTotal ==
    /\ status \in {"running", "sink"}
    /\ status = "sink" => report # NoReport

---------------------------------------------------------------------------
(* How many entries one callback changes. *)

\* The regions whose entry differs between two maps.
Changed(before, after) == {r \in Regions : after[r] # before[r]}

\* The callback that has led to o, if the path goes on, has changed at most
\* one entry of State.
AtMostOneEntry(o) ==
    o.status = "running" => Cardinality(Changed(State, o.state)) <= 1

\* Calls of testMultiParamChecking's kind: two pointer parameters, each
\* with a region for its argument.
PairParams ==
    {[ParamDefault EXCEPT !.val = SymVal(t[1]), !.argStatic = t[2],
                          !.param = t[3]] :
        t \in Regions \X {Nullable, Unspecified} \X {Nonnull, Unspecified}}

PairCalls ==
    {[hasDecl |-> TRUE, params |-> <<a, b>>] : a, b \in PairParams}

\* Every callback but checkPreCall changes at most one entry.
OtherCallbacksChangeOneEntry ==
    /\ \A b \in BindInputs : AtMostOneEntry(checkBind(State, Filter, b))
    /\ \A s \in ReturnInputs : AtMostOneEntry(checkPreStmt(State, Filter, s))
    /\ \A c \in PostCallInputs :
           AtMostOneEntry(checkPostCall(State, Filter, c))
    /\ \A m \in MessageEvents :
           AtMostOneEntry(checkPostObjCMessage(State, Filter, m))
    /\ \A c \in CastInputs : AtMostOneEntry(checkPostStmt(State, Filter, c))
    /\ \A live \in LiveSets :
           AtMostOneEntry(checkDeadSymbols(State, Filter, live))
    /\ \A e \in DerefInputs : AtMostOneEntry(checkEvent(State, Filter, e))

\* C21, as stated: every callback after which the path goes on leaves the
\* map as it was or changes exactly one entry of it; in particular one
\* checkPreCall with several arguments adds no more than one entry.
C21_OneEntryPerEvent ==
    status = "running" =>
        /\ OtherCallbacksChangeOneEntry
        /\ \A c \in PathCalls \cup PairCalls :
               AtMostOneEntry(checkPreCall(State, Filter, c))

\* The entries that checkPreCall of c, having led to o, has changed: none
\* overwritten, at most one added for each argument, for an untracked
\* region whose argument is annotated Nullable.
OneEntryPerArgument(c, o) ==
    o.status = "running" =>
        LET changed == Changed(State, o.state)
        IN  /\ Cardinality(changed) <= Len(c.params)
            /\ \A r \in changed :
                   /\ ~IsTracked(State, r)
                   /\ o.state[r].value = Nullable
                   /\ \E i \in ArgumentsOf(c, r) :
                          c.params[i].argStatic = Nullable

\* C21, amended: every callback but checkPreCall changes at most one
\* entry; one checkPreCall overwrites no entry and adds at most one for each
\* argument, for an untracked region whose argument is annotated Nullable.
C21_OneEntryPerArgument ==
    status = "running" =>
        /\ OtherCallbacksChangeOneEntry
        /\ \A c \in PathCalls \cup PairCalls :
               OneEntryPerArgument(c, checkPreCall(State, Filter, c))

\* Both regions are tracked from the annotation of an argument expression.
C21_Witness ==
    /\ status = "running"
    /\ \A r \in Regions : State[r] = NullabilityState(Nullable, "ArgExpr")

---------------------------------------------------------------------------
(* Properties of what checkBind starts tracking. *)

\* The binds of the value SymVal(r) that pass the guards of checkBind.
BindsOf(r) == {b \in BindInputs : b.guard = "ok" /\ b.val = SymVal(r)}

\* C22: checkBind trusts the annotation of the value over that of the
\* location.  It never puts into the map an untracked value whose own
\* annotation is Nonnull, even when the location is declared Nullable; it
\* starts tracking from the location's Nullable annotation, the source
\* being the left-hand operand or else the whole statement, only when the
\* value's annotation is Unspecified.
C22_ValueAnnotationIsTrusted ==
    status = "running" =>
        \A r \in Regions :
            ~IsTracked(State, r) =>
                \A b \in BindsOf(r) :
                    LET after == checkBind(State, Filter, b).state[r]
                    IN  /\ BindValNullability(b) = Nonnull
                           => after = Untracked
                        /\ after.source \in {"BindLHS", "BindStmt"}
                           => \/ BindValNullability(b) = Unspecified
                              \/ BindValNullability(b) = Nullable
                                     /\ after.source = "BindStmt"

---------------------------------------------------------------------------
(* Properties of checkBind for a tracked value. *)

\* C23, as stated: checkBind of a value whose region is tracked leaves the
\* map as it was, whether or not it reports, and reports
\* NullableAssignedToNonnull exactly when the tracked value is Nullable,
\* the solver has not proven the value non-null and the location is
\* declared Nonnull.
C23_BindKeepsTrackedEntries ==
    status = "running" =>
        \A r \in Regions :
            IsTracked(State, r) =>
                \A b \in BindsOf(r) :
                    LET o == checkBind(State, Filter, b)
                    IN  /\ o.state = State
                        /\ o.report.kind = "NullableAssignedToNonnull"
                           <=> /\ State[r].value = Nullable
                               /\ b.nullness # "IsNotNull"
                               /\ b.loc = Nonnull

\* C23, amended: the same, the report being emitted exactly when moreover
\* NullablePassedToNonnull is enabled and the bind is not reported as
\* NilAssignedToNonnull, which comes first.
C23_BindReportsTrackedNullable ==
    status = "running" =>
        \A r \in Regions :
            IsTracked(State, r) =>
                \A b \in BindsOf(r) :
                    LET o == checkBind(State, Filter, b)
                    IN  /\ o.state = State
                        /\ o.report = reportBug("NullableAssignedToNonnull",
                                                r, 0)
                           <=> /\ State[r].value = Nullable
                               /\ b.nullness # "IsNotNull"
                               /\ b.loc = Nonnull
                               /\ "NullablePassedToNonnull" \in Filter
                               /\ ~NullAssigned(Filter, b.nullness,
                                      BindValNullability(b), b.loc)
                        /\ o.report.kind \in {"None", "NilAssignedToNonnull",
                                              "NullableAssignedToNonnull"}

\* NullableAssignedToNonnull has been reported about a region tracked
\* Nullable, on a path that also reports NilAssignedToNonnull.
C23_Witness ==
    /\ report.kind = "NullableAssignedToNonnull"
    /\ State[report.region].value = Nullable
    /\ "NullPassedToNonnull" \in Filter
    /\ status = "running"

---------------------------------------------------------------------------
(* The table of checkPostStmt. *)

\* The casts between pointer types whose value is the region r.
CastsOf(r) ==
    {c \in CastInputs : c.guard = "ok" /\ c.defined /\ c.val = SymVal(r)}

\* C24: checkPostStmt of a cast between pointer types whose value is a
\* region never reports, and: to an Unspecified type leaves the map as it
\* was; to a Nonnull type with a value proven null makes the entry
\* Contradicted, tracked or not; otherwise for an untracked region a cast to
\* Nullable stores (Nullable, the cast) and a cast to Nonnull changes
\* nothing; for a region tracked Nullable a cast to Nonnull makes the entry
\* Contradicted and a cast to Nullable changes nothing; a Contradicted
\* entry is left as it was.
C24_CastTable ==
    status = "running" =>
        \A r \in Regions : \A c \in CastsOf(r) :
            checkPostStmt(State, Filter, c) =
                Continue(
                    IF c.dest = Unspecified THEN State
                    ELSE IF c.dest = Nonnull /\ c.nullness = "IsNull"
                    THEN SetMap(State, r,
                                NullabilityState(Contradicted, NoStmt))
                    ELSE IF ~IsTracked(State, r)
                    THEN IF c.dest = Nullable
                         THEN SetMap(State, r,
                                     NullabilityState(Nullable, "CastExpr"))
                         ELSE State
                    ELSE IF State[r].value = Nullable /\ c.dest = Nonnull
                    THEN SetMap(State, r,
                                NullabilityState(Contradicted, NoStmt))
                    ELSE State)

\* A cast has started tracking one region and has contradicted the other.
C24_Witness ==
    /\ status = "running"
    /\ report = NoReport
    /\ \E r, q \in Regions :
           /\ State[r] = NullabilityState(Nullable, "CastExpr")
           /\ State[q] = NullabilityState(Contradicted, NoStmt)

---------------------------------------------------------------------------
(* The table of checkPostCall. *)

\* C25: checkPostCall never reports and does nothing for an ObjC message.
\* For an ordinary call with a pointer return type whose value is a region:
\* when the callee is declared in a file whose name starts with CG the entry
\* is set to Contradicted, a tracked Nullable one included; otherwise an
\* untracked region becomes (Nullable, no source) exactly when the return
\* type is annotated Nullable, and a tracked region is left as it was.
C25_PostCallTable ==
    status = "running" =>
        \A c \in PostCallInputs :
            LET o == checkPostCall(State, Filter, c)
                r == c.val.base
            IN  /\ c.guard = "objcMessage" => o = Continue(State)
                /\ (c.guard = "ok" /\ c.val.kind = "symbolic") =>
                       /\ c.inCGFile =>
                              o = Continue(SetMap(State, r,
                                      NullabilityState(Contradicted, NoStmt)))
                       /\ (~c.inCGFile /\ IsTracked(State, r)) =>
                              o = Continue(State)
                       /\ (~c.inCGFile /\ ~IsTracked(State, r)) =>
                              o = IF c.ret = Nullable
                                  THEN Continue(SetMap(State, r,
                                           NullabilityState(Nullable, NoStmt)))
                                  ELSE Continue(State)
                /\ o.report = NoReport

\* A call declared to return Nullable has started tracking one region, and
\* the other is Contradicted without a source.
C25_Witness ==
    /\ status = "running"
    /\ \E r, q \in Regions :
           /\ State[r] = NullabilityState(Nullable, NoStmt)
           /\ State[q] = NullabilityState(Contradicted, NoStmt)

---------------------------------------------------------------------------
(* Properties of getReceiverNullability. *)

\* C26: the nullability of a receiver is Nonnull for self and super;
\* otherwise Nonnull whenever the solver proves the receiver non-null,
\* whatever the map holds for it; otherwise the tracked value of the
\* receiver if it is tracked, and Unspecified if not.  Hence a message to a
\* receiver tracked Nullable but proven non-null, whose method is declared
\* to return Nonnull or Unspecified, leaves an untracked result untracked.
C26_ReceiverNullability ==
    /\ getReceiverNullability(SelfReceiver, State) = Nonnull
    /\ getReceiverNullability(UndefinedReceiver, State) = Unspecified
    /\ \A v \in PointerVals : \A n \in NullConstraint :
           LET receiver == [selfOrSuper |-> FALSE, defined |-> TRUE,
                            val |-> v, nullness |-> n]
               S == getReceiverNullability(receiver, State)
           IN  /\ n = "IsNotNull" => S = Nonnull
               /\ (n # "IsNotNull" /\ v.kind = "symbolic") =>
                      S = IF IsTracked(State, v.base)
                          THEN State[v.base].value
                          ELSE Unspecified
               /\ (n # "IsNotNull" /\ v.kind # "symbolic") => S = Unspecified
    /\ \A r, q \in Regions :
           (~IsTracked(State, r) /\ State[q].value = Nullable) =>
               \A ret \in {Nonnull, Unspecified} :
                   checkPostObjCMessage(State, Filter,
                       [MessageDefault EXCEPT
                           !.val = SymVal(r), !.ret = ret,
                           !.receiver = [selfOrSuper |-> FALSE,
                                         defined |-> TRUE,
                                         val |-> SymVal(q),
                                         nullness |-> "IsNotNull"]])
                   = Continue(State)

\* The result of a message to a tracked result of a message: the receiver
\* was tracked Nullable and not proven non-null.
C26_Witness ==
    /\ status = "running"
    /\ \E r, q \in Regions :
           /\ State[q] = NullabilityState(Nullable, "Message")
           /\ State[r] = NullabilityState(Nullable, "Receiver")

---------------------------------------------------------------------------
(* The order of the loop of checkPreCall. *)

\* The call with its parameters up to position i only.
UpTo(call, i) == [call EXCEPT !.params = SubSeq(call.params, 1, i)]

\* The parameters that can decide a call: a pack, and a pointer or a
\* reference with a region for its argument, which the call can report or
\* start tracking.
DecisiveParams ==
    {p \in ParamCases :
        \/ p.pack
        \/ /\ Examined(p)
           /\ p.val.kind = "symbolic"
           /\ p.argStatic \in {Nullable, Unspecified}
           /\ p.param \in {Nonnull, Unspecified}
           /\ p.nullness # "IsNotNull"}

\* The calls with up to MaxParams of them.
DecisiveCalls ==
    {c \in AllCalls :
        c.hasDecl /\ \A i \in 1..Len(c.params) :
                         c.params[i] \in DecisiveParams}

\* The outcome whole of checkPreCall for call is decided at position i,
\* where upto is the outcome for the parameters up to i and before the one
\* for the parameters before i: by a diagnostic (or a fault) at i or
\* earlier, or by a pack at i.
DecidedAt(call, i, whole, upto, before) ==
    /\ (upto.report # NoReport \/ upto.status # "running") => whole = upto
    /\ call.params[i].pack => whole = before

\* C27: checkPreCall examines the parameters in their order and emits at
\* most one diagnostic, that of the first violating parameter, with which
\* the handler ends: the parameters after it are neither checked nor used
\* to start tracking, and neither are the parameters from a pack on.
C27_FirstViolationDecides ==
    status = "running" =>
    \A call \in DecisiveCalls :
        /\ checkPreCall(State, Filter, call).status = "running"
           => checkPreCall(State, Filter, call).report = NoReport
        /\ \A i \in 1..Len(call.params) :
               DecidedAt(call, i, checkPreCall(State, Filter, call),
                         checkPreCall(State, Filter, UpTo(call, i)),
                         checkPreCall(State, Filter, Before(call, i)))

\* A call has ended the path with a diagnostic about its first argument,
\* bound to a reference.
C27_Witness ==
    /\ report.kind = "NullableDereferenced"
    /\ report.arg = 1
    /\ status = "sink"

---------------------------------------------------------------------------
(* Properties of VisitNode. *)

\* What the claim says of the pair of maps (previous, current), the
\* statement point of the current node and the region.
TrailEvent(current, previous, point, r) ==
    LET changes == /\ IsTracked(current, r)
                   /\ \/ ~IsTracked(previous, r)
                      \/ previous[r].value # current[r].value
        where == IF current[r].source # NoStmt THEN current[r].source
                 ELSE point
    IN  IF changes /\ where # NoStmt
        THEN EventPiece(where, current[r].value)
        ELSE NoPiece

\* VisitNode on the pair that the outcome o of a callback makes with State.
TrailOfStep(o) ==
    \A r \in Regions : \A point \in StmtPoints :
        /\ VisitNode(o.state, State, point, r)
               = TrailEvent(o.state, State, point, r)
        /\ (/\ IsTracked(State, r)
            /\ o.state[r].value = State[r].value)
           => VisitNode(o.state, State, point, r) = NoPiece

\* C28: for the pair of consecutive snapshots that a call, a cast or a
\* message to self makes,
\* VisitNode produces an event exactly when the region is tracked in the
\* current one and is untracked or tracked with another value in the
\* previous one, its statement being the source stored in the entry, or the
\* statement point of the current node when none is stored, and no event
\* when there is neither; a pair in which only the source differs produces
\* no event.
C28_TrailEvents ==
    status = "running" =>
        /\ \A c \in PostCallInputs :
               TrailOfStep(checkPostCall(State, Filter, c))
        /\ \A c \in CastInputs : TrailOfStep(checkPostStmt(State, Filter, c))
        /\ \A r \in Regions : \A ret \in Annotations :
               TrailOfStep(checkPostObjCMessage(State, Filter,
                   [MessageDefault EXCEPT !.val = SymVal(r), !.ret = ret]))

\* A region is Contradicted on account of a receiver, and a cast to
\* Nonnull of its null value makes a pair in which only the source differs,
\* for which there is no event.
C28_Witness ==
    /\ status = "running"
    /\ \E r \in Regions :
           LET cast == [guard |-> "ok", dest |-> Nonnull, defined |-> TRUE,
                        traps |-> FALSE, val |-> SymVal(r),
                        nullness |-> "IsNull"]
               after == checkPostStmt(State, Filter, cast).state
           IN  /\ State[r] = NullabilityState(Contradicted, "Receiver")
               /\ after[r] = NullabilityState(Contradicted, NoStmt)
               /\ VisitNode(after, State, "NodeStmt", r) = NoPiece

---------------------------------------------------------------------------
(* Totality of checkPostStmt. *)

\* C29: checkPostStmt of a cast between pointer types to an annotated type
\* whose value is undefined completes without fault, leaves the map as it
\* was and reports nothing.
C29_CastIsTotal ==
    status = "running" =>
        \A c \in CastInputs :
            (c.guard = "ok" /\ c.dest # Unspecified /\ ~c.defined)
            => checkPostStmt(State, Filter, c) = Continue(State)

---------------------------------------------------------------------------
(* The selectors of the diagnostics. *)

\* The callback that leads to o under every check leads to lost without
\* NullableDereferenced: a NullablePassedToNonnull diagnostic of o is in
\* lost too.
NotLost(o, lost) ==
    o.report.kind = "NullablePassedToNonnull" => lost.report = o.report

\* C30: each kind of diagnostic has its own selector.  On a path without
\* NullablePassedToNonnull no callback emits a NullablePassedToNonnull
\* diagnostic; and disabling NullableDereferenced alone loses no
\* NullablePassedToNonnull diagnostic of checkPreCall, checkBind or
\* checkEvent.
C30_OwnSelector ==
    /\ report.kind = "NullablePassedToNonnull"
       => "NullablePassedToNonnull" \in Filter
    /\ status = "running" =>
       LET without == Checks \ {"NullableDereferenced"}
       IN  /\ \A c \in PathCalls :
                  NotLost(checkPreCall(State, Checks, c),
                          checkPreCall(State, without, c))
           /\ \A b \in BindInputs :
                  NotLost(checkBind(State, Checks, b),
                          checkBind(State, without, b))
           /\ \A e \in DerefInputs :
                  NotLost(checkEvent(State, Checks, e),
                          checkEvent(State, without, e))

---------------------------------------------------------------------------
(* The path with the trail of each region: trail[r] is the number of nodes
   of the path for which VisitNode, walking back from the last node with
   the visitor of region r, produces an event.  Every node has a statement
   point, so that no event is dropped for want of a statement. *)

MaxTrail == 3

\* The engine takes the outcome as the next node.  VisitNode will be
\* called with it as N and the node before as PrevN.
ApplyTrailed(o) ==
    /\ status = "running"
    /\ State' = o.state
    /\ report' = o.report
    /\ status' = o.status
    /\ trail' = [r \in Regions |->
                    IF /\ VisitNode(o.state, State, "NodeStmt", r) # NoPiece
                       /\ trail[r] < MaxTrail
                    THEN trail[r] + 1
                    ELSE trail[r]]
    /\ UNCHANGED <<Filter, stage, fork>>

TrailedBind ==
    \E b \in BindInputs : ApplyTrailed(checkBind(State, Filter, b))

TrailedPreStmt ==
    \E s \in ReturnInputs : ApplyTrailed(checkPreStmt(State, Filter, s))

TrailedPreCall ==
    \E c \in PathCalls \cup PairCalls :
        ApplyTrailed(checkPreCall(State, Filter, c))

TrailedPostCall ==
    \E c \in PostCallInputs : ApplyTrailed(checkPostCall(State, Filter, c))

TrailedPostObjCMessage ==
    \E m \in MessageEvents :
        ApplyTrailed(checkPostObjCMessage(State, Filter, m))

TrailedPostStmt ==
    \E c \in CastInputs : ApplyTrailed(checkPostStmt(State, Filter, c))

TrailedDeadSymbols ==
    \E live \in LiveSets : ApplyTrailed(checkDeadSymbols(State, Filter, live))

TrailedImplicitDeref ==
    \E e \in DerefInputs : ApplyTrailed(checkEvent(State, Filter, e))

NextTrail ==
    \/ TrailedBind
    \/ TrailedPreStmt
    \/ TrailedPreCall
    \/ TrailedPostCall
    \/ TrailedPostObjCMessage
    \/ TrailedPostStmt
    \/ TrailedDeadSymbols
    \/ TrailedImplicitDeref

SpecTrail == Init /\ [][NextTrail]_vars

\* The tracked status of region r does not move back in the step: a
\* tracked region stays tracked and a Contradicted one stays Contradicted.
MovesDownward(r) ==
    /\ IsTracked(State, r) => IsTracked(State', r)
    /\ State[r].value = Contradicted => State'[r].value = Contradicted
    /\ IsTracked(State', r) => State'[r].value \in {Nullable, Contradicted}

\* The trail of every region agrees with its status: no event for an
\* untracked region, one for a Nullable region, one or two for a
\* Contradicted region; and a diagnostic about a Nullable value is reported
\* for a region with one event, the one that started tracking it.
OneEventAtReport ==
    /\ \A r \in Regions :
           /\ ~IsTracked(State, r) => trail[r] = 0
           /\ State[r].value = Nullable => trail[r] = 1
           /\ State[r].value = Contradicted => trail[r] \in {1, 2}
    /\ report.kind \in NullableKinds =>
           /\ State[report.region].value = Nullable
           /\ trail[report.region] = 1

\* C31: along any path the tracked status of a region only moves from
\* absent to Nullable to Contradicted, or from absent to Contradicted, and
\* never back; so when a diagnostic about a Nullable value is reported for
\* a region the history of the path holds exactly one transition of the
\* region, from absent to Nullable, and its trail has at most one event.
C31_MonotoneHistory ==
    /\ []OneEventAtReport
    /\ [][\A r \in Regions : MovesDownward(r)]_vars

\* A diagnostic about a Nullable value has been reported for a region with
\* one event in its trail, while the other region has gone from Nullable to
\* Contradicted, with two.
C31_Witness ==
    /\ report.kind \in NullableKinds
    /\ trail[report.region] = 1
    /\ \E q \in Regions : State[q].value = Contradicted /\ trail[q] = 2

====
